---- MODULE Spec2Model ----
(***************************************************************************)
(* Real-time fan-out of the chat server (server/internal/messages):        *)
(* the Clients and Spaces tables of MessageService, the per-connection     *)
(* WebSocketHandler, SendMessage and the broadcastMessage goroutines.      *)
(*                                                                         *)
(* The Go maps are reference objects: a table maps a key to the identity   *)
(* of an inner map, and `heap` holds the contents of the inner maps.  The  *)
(* code takes no lock anywhere, so every statement that touches a map is   *)
(* a step of its own and the steps of different goroutines interleave.     *)
(* Two goroutines whose next steps touch the same map object, one of them  *)
(* writing, are a data race: the Go runtime either lets both steps take    *)
(* effect in some order or stops the process with a fatal error            *)
(* ("concurrent map writes", "concurrent map iteration and map write").    *)
(***************************************************************************)
EXTENDS Integers, Sequences, FiniteSets, TLC

\* ---------------------------------------------------------------- bounds
\* Spec, SpecDeliver: two connections, frames and messages for one space, one
\* message at a time; SpecOrder: one connection and two messages; SpecCalls:
\* two connections and every space
NumConns == 2
NumSpaces == 1
MaxMsgs == 1
OrderConns == 1
OrderMsgs == 2
\* SpecClient: the WebSockets the page creates
MaxSockets == 4

Conns == 1..NumConns
UserSeq == <<"alice", "bob">>
SpaceSeq == <<"general", "random">>
Users == {UserSeq[n] : n \in DOMAIN UserSeq}
SpaceIDs == {SpaceSeq[n] : n \in DOMAIN SpaceSeq}
\* the spaces the frames and the messages of the interleaved runs name
FrameSpaces == {SpaceSeq[n] : n \in 1..NumSpaces}

NoUser == "nouser"
NoSpace == "nospace"
Nil == 0
NoConn == 0
NoSocket == 0

\* one inner map per key of either table, plus one per holder of a stale
\* reference (a handler's `conns` variable, a broadcast's range loop)
NumMaps == Len(UserSeq) + Len(SpaceSeq) + NumConns + MaxMsgs + OrderMsgs
MapIds == 1..NumMaps

VARIABLES
  hpc,        \* handler position of each connection
  owner,      \* userUUID of the handler; NoUser before the handshake
  frame,      \* msg.SpaceID of the frame being processed
  href,       \* `conns` of the unsubscribe branch (line 381)
  clSeen,     \* keys already produced by the range loop of the cleanup
  Clients,    \* s.Clients: user -> inner map (Nil: no entry)
  Spaces,     \* s.Spaces: space -> inner map (Nil: no entry)
  heap,       \* contents of the inner maps
  members,    \* rows of space_members
  msgs,       \* persisted messages, in insert order, each with its broadcast
  recv,       \* frames each connection received from broadcasts, in order
  crashed,    \* the process died of a fatal error
  cleanups,   \* how often Unregister / UnsubscribeAll ran per connection
  net,        \* SpecCalls: the sets a sequence of calls implies
  client      \* SpecClient: the module state of the client's message service

vars == <<hpc, owner, frame, href, clSeen, Clients, Spaces, heap, members,
          msgs, recv, crashed, cleanups, net, client>>

\* ------------------------------------------------------------ map helpers
Min(S) == CHOOSE x \in S : \A y \in S : x <= y

\* connections stored under key k of table tbl (ConnectionsFor)
ConnectionsFor(tbl, hp, k) == hp[tbl[k]]

Keys(tbl) == {k \in DOMAIN tbl : tbl[k] # Nil}

\* every variable that holds a reference to an inner map, in a fixed order
Holders(cl, sp, hr, ms) ==
  [n \in DOMAIN UserSeq |-> cl[UserSeq[n]]] \o [n \in DOMAIN SpaceSeq |-> sp[SpaceSeq[n]]]
    \o [c \in Conns |-> hr[c]] \o [i \in DOMAIN ms |-> ms[i].ref]

Referenced(cl, sp, hr, ms) ==
  LET h == Holders(cl, sp, hr, ms) IN {h[p] : p \in DOMAIN h} \ {Nil}

\* make(map[*websocket.Conn]bool): a fresh inner map
NewMap(cl, sp, hr, ms) == Min(MapIds \ Referenced(cl, sp, hr, ms))

\* The identity of a map is only a name.  To keep one state per heap, every
\* reachable map is named after its first holder and an unreachable map
\* is garbage; heap[Nil] is the nil map, always empty.
Normalize(cl, sp, hr, ms, hp) ==
  LET h == Holders(cl, sp, hr, ms)
      name(m) == IF m = Nil THEN Nil ELSE Min({p \in DOMAIN h : h[p] = m})
  IN [cl |-> [u \in Users |-> name(cl[u])],
      sp |-> [s \in SpaceIDs |-> name(sp[s])],
      hr |-> [c \in Conns |-> name(hr[c])],
      ms |-> [i \in DOMAIN ms |-> [ms[i] EXCEPT !.ref = name(@)]],
      hp |-> [m \in DOMAIN hp |->
                IF m \in DOMAIN h /\ h[m] # Nil /\ name(h[m]) = m THEN hp[h[m]] ELSE {}]]

\* the next value of the two tables, of the references and of the heap
SetRefs(cl, sp, hr, ms, hp) ==
  LET n == Normalize(cl, sp, hr, ms, hp)
  IN /\ Clients' = n.cl
     /\ Spaces' = n.sp
     /\ href' = n.hr
     /\ msgs' = n.ms
     /\ heap' = n.hp

\* ------------------------------------------------- statements on a table
\* `_, exists := tbl[k]` (lines 284, 364, 381, 401, 415, 428)
Exists(tbl, k) == tbl[k] # Nil

\* `tbl[k] = make(map[*websocket.Conn]bool)` (lines 285, 365)
MakeEntry(tbl, k, m) == [tbl EXCEPT ![k] = m]

\* `tbl[k][conn] = true` (lines 287, 367); tbl[k] is not Nil
AddConn(tbl, hp, k, c) == [hp EXCEPT ![tbl[k]] = @ \cup {c}]

\* a delete that leaves the connection in the map
DeleteConnKeeps(hp, m, c) == hp

\* `delete(m, conn)` (lines 306, 314, 382); deleting from a nil map is a no-op
DeleteConn(hp, m, c) == IF m = Nil THEN hp ELSE [hp EXCEPT ![m] = @ \ {c}]

\* an empty inner map that is never pruned
PruneKeyNever(tbl, hp, m, k) == tbl

\* `if len(m) == 0 { delete(tbl, k) }` (lines 307-309, 315-317, 383-385);
\* the length of a nil map is 0
PruneKey(tbl, hp, m, k) == IF hp[m] = {} THEN [tbl EXCEPT ![k] = Nil] ELSE tbl

\* ---------------------------------------------------------- data races
ClientsObj == 0 - 1
SpacesObj == 0 - 2

InnerAcc(m, mode) == IF m = Nil THEN {} ELSE {<<m, mode>>}

\* the map objects the next statement of handler c can touch, and how
HandlerAccess(c) ==
  LET u == owner[c]
      s == frame[c]
  IN CASE hpc[c] = "connecting" -> {<<ClientsObj, "r">>}
       [] hpc[c] = "reg_make" -> {<<ClientsObj, "w">>}
       [] hpc[c] = "reg_add" -> {<<ClientsObj, "r">>} \cup InnerAcc(Clients[u], "w")
       [] hpc[c] = "read" -> {<<SpacesObj, "r">>}
       [] hpc[c] = "sub_make" -> {<<SpacesObj, "w">>}
       [] hpc[c] = "sub_add" -> {<<SpacesObj, "r">>} \cup InnerAcc(Spaces[s], "w")
       [] hpc[c] = "unsub_del" -> InnerAcc(href[c], "w")
       [] hpc[c] = "unsub_prune" ->
            InnerAcc(href[c], "r")
              \cup (IF heap[href[c]] = {} THEN {<<SpacesObj, "w">>} ELSE {})
       [] hpc[c] = "cl_del" -> {<<ClientsObj, "r">>} \cup InnerAcc(Clients[u], "w")
       [] hpc[c] = "cl_prune" ->
            InnerAcc(Clients[u], "r")
              \cup {<<ClientsObj,
                      IF ConnectionsFor(Clients, heap, u) = {} THEN "w" ELSE "r">>}
       [] hpc[c] = "cl_range" ->
            {<<SpacesObj, "r">>}
              \cup UNION {InnerAcc(Spaces[k], IF c \in heap[Spaces[k]] THEN "w" ELSE "r")
                            : k \in Keys(Spaces) \ clSeen[c]}
              \cup (IF \E k \in Keys(Spaces) \ clSeen[c] : heap[Spaces[k]] = {c}
                      THEN {<<SpacesObj, "w">>} ELSE {})
       [] OTHER -> {}

\* a range loop may end once every entry that was in the map when the loop
\* began and is still there has been produced
RangeOver(b) == (heap[b.ref] \cap b.init) \subseteq b.visited

\* the map objects the next statement of the broadcast of message i touches
BroadcastAccess(i) ==
  LET b == msgs[i]
  IN CASE b.pc = "start" -> {<<IF b.direct /\ b.recipient # NoUser THEN ClientsObj
                                 ELSE SpacesObj, "r">>}
       [] b.pc = "r_iter" ->
            InnerAcc(b.ref, "r")
              \cup (IF RangeOver(b) THEN {<<ClientsObj, "r">>} ELSE {})
       [] b.pc \in {"s_iter", "sp_iter"} -> InnerAcc(b.ref, "r")
       [] OTHER -> {}

Tasks == {<<"handler", c>> : c \in Conns} \cup {<<"broadcast", i>> : i \in DOMAIN msgs}

Access(t) == IF t[1] = "handler" THEN HandlerAccess(t[2]) ELSE BroadcastAccess(t[2])

Conflict(a1, a2) == a1[1] = a2[1] /\ (a1[2] = "w" \/ a2[2] = "w")

\* two goroutines about to touch the same map, one of them writing
MapRace(t1, t2) ==
  t1 # t2 /\ \E a1 \in Access(t1), a2 \in Access(t2) : Conflict(a1, a2)

\* the connections the next statement of a task writes a frame to
\* (conn.WriteJSON: lines 298, 371, 404, 418, 434)
ConnWrites(t) ==
  IF t[1] = "handler"
    THEN IF hpc[t[2]] \in {"welcome", "confirm"} THEN {t[2]} ELSE {}
    ELSE IF msgs[t[2]].pc \in {"r_iter", "s_iter", "sp_iter"}
           THEN heap[msgs[t[2]].ref] \ msgs[t[2]].visited ELSE {}

ConnRace(t1, t2) == t1 # t2 /\ ConnWrites(t1) \cap ConnWrites(t2) # {}

\* ------------------------------------------------------------------ Init
NoBroadcast == [sender |-> NoUser, space |-> NoSpace, recipient |-> NoUser,
                direct |-> FALSE, pc |-> "unsent", ref |-> Nil, init |-> {},
                visited |-> {}, writing |-> NoConn, answer |-> "none",
                inserted |-> FALSE]

NoCleanups == [unregister |-> 0, unsubscribeAll |-> 0]

NoCalls == [registered |-> {}, subscribed |-> {}]

\* messageService.ts, lines 23-26: no socket, no timer; `sockets` holds the
\* readyState of every WebSocket the page has created
NoClient == [socket |-> NoSocket, reconnectTimer |-> FALSE, isConnecting |-> FALSE,
             sockets |-> <<>>, timers |-> 0, disconnected |-> FALSE]

\* NewMessageService (lines 25-40): both tables empty; no connection yet
Init ==
  /\ hpc = [c \in Conns |-> "connecting"]
  /\ owner = [c \in Conns |-> NoUser]
  /\ frame = [c \in Conns |-> NoSpace]
  /\ href = [c \in Conns |-> Nil]
  /\ clSeen = [c \in Conns |-> {}]
  /\ Clients = [u \in Users |-> Nil]
  /\ Spaces = [s \in SpaceIDs |-> Nil]
  /\ heap = [m \in 0..NumMaps |-> {}]
  /\ members = {}
  /\ msgs = <<>>
  /\ recv = [c \in Conns |-> <<>>]
  /\ crashed = FALSE
  /\ cleanups = [c \in Conns |-> NoCleanups]
  /\ net = NoCalls
  /\ client = NoClient

\* ------------------------------------------------- WebSocketHandler steps
\* the connections come into being one after the other, and the users are
\* interchangeable: the first connection is alice's
Arrives(c, u) ==
  /\ hpc[c] = "connecting"
  /\ \A d \in Conns : d < c => hpc[d] # "connecting"
  /\ c = 1 => u = "alice"

\* lines 276-284: the upgrade handshake of a new connection of user u
\* succeeds; `if _, exists := s.Clients[userUUID]; !exists`
Connect(c, u) ==
  /\ ~crashed
  /\ Arrives(c, u)
  /\ owner' = [owner EXCEPT ![c] = u]
  /\ hpc' = [hpc EXCEPT ![c] = IF Exists(Clients, u) THEN "reg_add" ELSE "reg_make"]
  /\ UNCHANGED <<frame, href, clSeen, Clients, Spaces, heap, members, msgs,
                 recv, crashed, cleanups, net, client>>

\* a failed upgrade that registers the connection all the same
UpgradeFailsRegisters(c, u) ==
  /\ ~crashed
  /\ Arrives(c, u)
  /\ Exists(Clients, u)
  /\ heap' = AddConn(Clients, heap, u, c)
  /\ UNCHANGED <<hpc, owner, frame, href, clSeen, Clients, Spaces, members,
                 msgs, recv, crashed, cleanups, net, client>>

\* lines 276-281: the upgrade fails; there is no connection (conn is nil)
\* and the handler returns
UpgradeFails(c, u) ==
  /\ ~crashed
  /\ Arrives(c, u)
  /\ UNCHANGED vars

\* line 285: `s.Clients[userUUID] = make(...)`
RegMake(c) ==
  /\ ~crashed
  /\ hpc[c] = "reg_make"
  /\ LET m == NewMap(Clients, Spaces, href, msgs)
     IN SetRefs(MakeEntry(Clients, owner[c], m), Spaces, href, msgs,
                [heap EXCEPT ![m] = {}])
  /\ hpc' = [hpc EXCEPT ![c] = "reg_add"]
  /\ UNCHANGED <<owner, frame, clSeen, members, recv, crashed, cleanups, net, client>>

\* a registration that puts the connection into the set of every user
RegAddEveryUser(c) ==
  /\ ~crashed
  /\ hpc[c] = "reg_add"
  /\ heap' = [m \in DOMAIN heap |->
                IF \E u \in Keys(Clients) : Clients[u] = m THEN heap[m] \cup {c}
                ELSE heap[m]]
  /\ hpc' = [hpc EXCEPT ![c] = "welcome"]
  /\ UNCHANGED <<owner, frame, href, clSeen, Clients, Spaces, members, msgs,
                 recv, crashed, cleanups, net, client>>

\* line 287: `s.Clients[userUUID][conn] = true`; an assignment to an entry of
\* a nil map panics, and the cleanup of line 303 is not deferred yet
RegAdd(c) ==
  /\ ~crashed
  /\ hpc[c] = "reg_add"
  /\ IF Exists(Clients, owner[c])
       THEN /\ heap' = AddConn(Clients, heap, owner[c], c)
            /\ hpc' = [hpc EXCEPT ![c] = "welcome"]
       ELSE /\ heap' = heap
            /\ hpc' = [hpc EXCEPT ![c] = "panicked"]
  /\ UNCHANGED <<owner, frame, href, clSeen, Clients, Spaces, members, msgs,
                 recv, crashed, cleanups, net, client>>

\* lines 291-300: the welcome frame; its error is only logged.  Line 303
\* defers the cleanup, line 333 waits for a frame.
Welcome(c) ==
  /\ ~crashed
  /\ hpc[c] = "welcome"
  /\ hpc' = [hpc EXCEPT ![c] = "read"]
  /\ UNCHANGED <<owner, frame, href, clSeen, Clients, Spaces, heap, members,
                 msgs, recv, crashed, cleanups, net, client>>

\* what makes conn.ReadJSON return an error: the client went away, or the
\* frame is not JSON that fits the struct of lines 327-331
ReadErrors == {"gone", "malformed"}

\* lines 333-338: ReadJSON fails; whatever the cause, the loop breaks and the
\* deferred cleanup starts
ReadError(c, cause) ==
  /\ ~crashed
  /\ hpc[c] = "read"
  /\ cause \in ReadErrors
  /\ hpc' = [hpc EXCEPT ![c] = "cl_del"]
  /\ UNCHANGED <<owner, frame, href, clSeen, Clients, Spaces, heap, members,
                 msgs, recv, crashed, cleanups, net, client>>

\* an unrecognized frame that ends the read loop
IgnoredFrameCloses(c) ==
  /\ ~crashed
  /\ hpc[c] = "read"
  /\ hpc' = [hpc EXCEPT ![c] = "cl_del"]
  /\ UNCHANGED <<owner, frame, href, clSeen, Clients, Spaces, heap, members,
                 msgs, recv, crashed, cleanups, net, client>>

\* line 343: a frame whose type is not "subscribe" or that has no space_id
IgnoredFrame(c) ==
  /\ ~crashed
  /\ hpc[c] = "read"
  /\ UNCHANGED vars

\* the membership query of lines 345-349 and 70-73: an error, or the answer
MemberQueryResults(u, s) ==
  {"error", IF <<s, u>> \in members THEN "member" ELSE "stranger"}

\* a dropped frame that ends the read loop
DroppedFrameCloses(c, s, sub, res) ==
  /\ ~crashed
  /\ hpc[c] = "read"
  /\ res \in MemberQueryResults(owner[c], s) \ {"member"}
  /\ hpc' = [hpc EXCEPT ![c] = "cl_del"]
  /\ UNCHANGED <<owner, frame, href, clSeen, Clients, Spaces, heap, members,
                 msgs, recv, crashed, cleanups, net, client>>

\* a frame whose membership query failed and that is served as a member's
DroppedFrameServes(c, s, sub, res) ==
  /\ ~crashed
  /\ hpc[c] = "read"
  /\ res \in MemberQueryResults(owner[c], s) \ {"member"}
  /\ IF res = "error"
       THEN /\ frame' = [frame EXCEPT ![c] = s]
            /\ hpc' = [hpc EXCEPT ![c] = IF Exists(Spaces, s) THEN "sub_add" ELSE "sub_make"]
       ELSE UNCHANGED <<frame, hpc>>
  /\ UNCHANGED <<owner, href, clSeen, Clients, Spaces, heap, members, msgs,
                 recv, crashed, cleanups, net, client>>

\* lines 343-360: a subscription frame {space_id: s, subscribe: sub} whose
\* membership query fails or finds no row; the query is made for either
\* value of `subscribe`
DroppedFrame(c, s, sub, res) ==
  /\ ~crashed
  /\ hpc[c] = "read"
  /\ res \in MemberQueryResults(owner[c], s) \ {"member"}
  /\ UNCHANGED vars

\* a subscribe frame that is served without the membership check
SubscribeFrameUnchecked(c, s) ==
  /\ ~crashed
  /\ hpc[c] = "read"
  /\ frame' = [frame EXCEPT ![c] = s]
  /\ hpc' = [hpc EXCEPT ![c] = IF Exists(Spaces, s) THEN "sub_add" ELSE "sub_make"]
  /\ UNCHANGED <<owner, href, clSeen, Clients, Spaces, heap, members, msgs,
                 recv, crashed, cleanups, net, client>>

\* lines 343-364: a frame {space_id: s, subscribe: true} of a member;
\* `if _, exists := s.Spaces[*msg.SpaceID]; !exists`
SubscribeFrame(c, s) ==
  /\ ~crashed
  /\ hpc[c] = "read"
  /\ "member" \in MemberQueryResults(owner[c], s)
  /\ frame' = [frame EXCEPT ![c] = s]
  /\ hpc' = [hpc EXCEPT ![c] = IF Exists(Spaces, s) THEN "sub_add" ELSE "sub_make"]
  /\ UNCHANGED <<owner, href, clSeen, Clients, Spaces, heap, members, msgs,
                 recv, crashed, cleanups, net, client>>

\* lines 343-363, 380-381: a frame {space_id: s, subscribe: false} of a
\* member; `if conns, exists := s.Spaces[*msg.SpaceID]; exists`
UnsubscribeFrame(c, s) ==
  /\ ~crashed
  /\ hpc[c] = "read"
  /\ "member" \in MemberQueryResults(owner[c], s)
  /\ IF Exists(Spaces, s)
       THEN /\ SetRefs(Clients, Spaces, [href EXCEPT ![c] = Spaces[s]], msgs, heap)
            /\ hpc' = [hpc EXCEPT ![c] = "unsub_del"]
            /\ frame' = [frame EXCEPT ![c] = s]
       ELSE UNCHANGED <<Clients, Spaces, href, msgs, heap, hpc, frame>>
  /\ UNCHANGED <<owner, clSeen, members, recv, crashed, cleanups, net, client>>

\* line 365: `s.Spaces[*msg.SpaceID] = make(...)`
SubMake(c) ==
  /\ ~crashed
  /\ hpc[c] = "sub_make"
  /\ LET m == NewMap(Clients, Spaces, href, msgs)
     IN SetRefs(Clients, MakeEntry(Spaces, frame[c], m), href, msgs,
                [heap EXCEPT ![m] = {}])
  /\ hpc' = [hpc EXCEPT ![c] = "sub_add"]
  /\ UNCHANGED <<owner, frame, clSeen, members, recv, crashed, cleanups, net, client>>

\* line 367: `s.Spaces[*msg.SpaceID][conn] = true`; on a nil map it panics
\* and the deferred cleanup of line 303 runs
SubAdd(c) ==
  /\ ~crashed
  /\ hpc[c] = "sub_add"
  /\ IF Exists(Spaces, frame[c])
       THEN /\ heap' = AddConn(Spaces, heap, frame[c], c)
            /\ hpc' = [hpc EXCEPT ![c] = "confirm"]
            /\ frame' = frame
       ELSE /\ heap' = heap
            /\ hpc' = [hpc EXCEPT ![c] = "cl_del"]
            /\ frame' = [frame EXCEPT ![c] = NoSpace]
  /\ UNCHANGED <<owner, href, clSeen, Clients, Spaces, members, msgs, recv,
                 crashed, cleanups, net, client>>

\* lines 370-379: the subscribe_confirm frame; its error is dropped
Confirm(c) ==
  /\ ~crashed
  /\ hpc[c] = "confirm"
  /\ hpc' = [hpc EXCEPT ![c] = "read"]
  /\ frame' = [frame EXCEPT ![c] = NoSpace]
  /\ UNCHANGED <<owner, href, clSeen, Clients, Spaces, heap, members, msgs,
                 recv, crashed, cleanups, net, client>>

\* line 382: `delete(conns, conn)`
UnsubDel(c) ==
  /\ ~crashed
  /\ hpc[c] = "unsub_del"
  /\ heap' = DeleteConn(heap, href[c], c)
  /\ hpc' = [hpc EXCEPT ![c] = "unsub_prune"]
  /\ UNCHANGED <<owner, frame, href, clSeen, Clients, Spaces, members, msgs,
                 recv, crashed, cleanups, net, client>>

\* lines 383-385: `if len(conns) == 0 { delete(s.Spaces, *msg.SpaceID) }`
UnsubPrune(c) ==
  /\ ~crashed
  /\ hpc[c] = "unsub_prune"
  /\ SetRefs(Clients, PruneKey(Spaces, heap, href[c], frame[c]),
             [href EXCEPT ![c] = Nil], msgs, heap)
  /\ hpc' = [hpc EXCEPT ![c] = "read"]
  /\ frame' = [frame EXCEPT ![c] = NoSpace]
  /\ UNCHANGED <<owner, clSeen, members, recv, crashed, cleanups, net, client>>

\* line 306: `delete(s.Clients[userUUID], conn)`
CleanupDelete(c) ==
  /\ ~crashed
  /\ hpc[c] = "cl_del"
  /\ heap' = DeleteConn(heap, Clients[owner[c]], c)
  /\ hpc' = [hpc EXCEPT ![c] = "cl_prune"]
  /\ cleanups' = [cleanups EXCEPT ![c].unregister = @ + 1]
  /\ UNCHANGED <<owner, frame, href, clSeen, Clients, Spaces, members, msgs,
                 recv, crashed, net, client>>

\* lines 307-309: `if len(s.Clients[userUUID]) == 0 { delete(s.Clients, userUUID) }`
CleanupPrune(c) ==
  /\ ~crashed
  /\ hpc[c] = "cl_prune"
  /\ SetRefs(PruneKey(Clients, heap, Clients[owner[c]], owner[c]), Spaces, href,
             msgs, heap)
  /\ hpc' = [hpc EXCEPT ![c] = "cl_range"]
  /\ UNCHANGED <<owner, frame, clSeen, members, recv, crashed, cleanups, net, client>>

\* a round of the range loop that leaves the connection in the set
CleanupRangeSkips(c, k) ==
  /\ ~crashed
  /\ hpc[c] = "cl_range"
  /\ k \in Keys(Spaces) \ clSeen[c]
  /\ clSeen' = [clSeen EXCEPT ![c] = @ \cup {k}]
  /\ UNCHANGED <<hpc, owner, frame, href, Clients, Spaces, heap, members, msgs,
                 recv, crashed, cleanups, net, client>>

\* lines 312-320, one round of `for spaceID, conns := range s.Spaces` that
\* produces key k
CleanupRange(c, k) ==
  /\ ~crashed
  /\ hpc[c] = "cl_range"
  /\ k \in Keys(Spaces) \ clSeen[c]
  /\ clSeen' = [clSeen EXCEPT ![c] = @ \cup {k}]
  /\ IF c \in heap[Spaces[k]]
       THEN LET hp == DeleteConn(heap, Spaces[k], c)
            IN SetRefs(Clients, PruneKey(Spaces, hp, Spaces[k], k), href, msgs, hp)
       ELSE UNCHANGED <<Clients, Spaces, href, msgs, heap>>
  /\ UNCHANGED <<hpc, owner, frame, members, recv, crashed, cleanups, net, client>>

\* lines 320-322: the range loop is over; `conn.Close()`
CleanupClose(c) ==
  /\ ~crashed
  /\ hpc[c] = "cl_range"
  /\ Keys(Spaces) \subseteq clSeen[c]
  /\ hpc' = [hpc EXCEPT ![c] = "closed"]
  /\ clSeen' = [clSeen EXCEPT ![c] = {}]
  /\ cleanups' = [cleanups EXCEPT ![c].unsubscribeAll = @ + 1]
  /\ UNCHANGED <<owner, frame, href, Clients, Spaces, heap, members, msgs,
                 recv, crashed, net, client>>

\* WriteJSON of the handler (lines 298, 371) panics because a broadcast is
\* writing the same connection; gin recovers the panic of a handler.  At
\* line 298 the cleanup is not deferred yet, at line 371 it is.
HandlerWritePanic(c) ==
  /\ ~crashed
  /\ hpc[c] \in {"welcome", "confirm"}
  /\ \E t \in Tasks : ConnRace(<<"handler", c>>, t)
  /\ hpc' = [hpc EXCEPT ![c] = IF hpc[c] = "welcome" THEN "panicked" ELSE "cl_del"]
  /\ frame' = [frame EXCEPT ![c] = NoSpace]
  /\ UNCHANGED <<owner, href, clSeen, Clients, Spaces, heap, members, msgs,
                 recv, crashed, cleanups, net, client>>

\* ------------------------------------------------------------ SendMessage
\* line 59
IsDirectMessage(sp, rc) == rc # NoUser /\ sp = NoSpace

\* a SendMessage without the validation of lines 62-65
SendOutcomeUnvalidated(u, sp, rc, res, insertOk, userOk) ==
  IF sp # NoSpace /\ res = "error" THEN "membership_error"
  ELSE IF sp # NoSpace /\ res # "member" THEN "forbidden"
  ELSE IF ~insertOk THEN "insert_error"
  ELSE IF ~userOk THEN "user_error"
  ELSE "created"

\* a SendMessage without the membership check of lines 67-84
SendOutcomeAnyone(u, sp, rc, res, insertOk, userOk) ==
  IF (sp = NoSpace /\ rc = NoUser) \/ (sp # NoSpace /\ rc # NoUser) THEN "bad_request"
  ELSE IF ~insertOk THEN "insert_error"
  ELSE IF ~userOk THEN "user_error"
  ELSE "created"

\* lines 59-128: what SendMessage answers to a request of user u for space
\* sp / recipient rc, given the results of its three database calls
SendOutcome(u, sp, rc, res, insertOk, userOk) ==
  IF (sp = NoSpace /\ rc = NoUser) \/ (sp # NoSpace /\ rc # NoUser) THEN "bad_request"
  ELSE IF sp # NoSpace /\ res = "error" THEN "membership_error"
  ELSE IF sp # NoSpace /\ res # "member" THEN "forbidden"
  ELSE IF ~insertOk THEN "insert_error"
  ELSE IF ~userOk THEN "user_error"
  ELSE "created"

\* a SendMessage that starts the broadcast whatever the insert returned
SendMessageAlwaysBroadcasts(u, sp, rc, res, insertOk, userOk, keep) ==
  /\ ~crashed
  /\ res \in IF sp = NoSpace THEN {"member"} ELSE MemberQueryResults(u, sp)
  /\ LET out == SendOutcome(u, sp, rc, res, insertOk, userOk)
         m == [NoBroadcast EXCEPT !.sender = u, !.space = sp, !.recipient = rc,
                 !.direct = IsDirectMessage(sp, rc), !.answer = out,
                 !.inserted = out \in {"insert_error", "user_error", "created"} /\ insertOk]
     IN msgs' = IF out \in {"insert_error", "created"}
                  THEN Append(msgs, [m EXCEPT !.pc = "start"])
                  ELSE msgs
  /\ UNCHANGED <<hpc, owner, frame, href, clSeen, Clients, Spaces, heap,
                 members, recv, crashed, cleanups, net, client>>

\* lines 43-137: the insert of lines 93-115 stores the message;
\* `go s.broadcastMessage(response)` of line 134 starts its goroutine.
\* `keep` tells what the model remembers: "inflight", a message while its
\* goroutine runs; "persisted", every stored message; "all", every request.
SendMessage(u, sp, rc, res, insertOk, userOk, keep) ==
  /\ ~crashed
  /\ res \in IF sp = NoSpace THEN {"member"} ELSE MemberQueryResults(u, sp)
  /\ LET out == SendOutcome(u, sp, rc, res, insertOk, userOk)
         m == [NoBroadcast EXCEPT !.sender = u, !.space = sp, !.recipient = rc,
                 !.direct = IsDirectMessage(sp, rc), !.answer = out,
                 !.inserted = out \in {"insert_error", "user_error", "created"} /\ insertOk]
     IN msgs' = CASE out = "created" -> Append(msgs, [m EXCEPT !.pc = "start"])
                  [] out = "user_error" /\ keep # "inflight" -> Append(msgs, m)
                  [] keep = "all" -> Append(msgs, m)
                  [] OTHER -> msgs
  /\ UNCHANGED <<hpc, owner, frame, href, clSeen, Clients, Spaces, heap,
                 members, recv, crashed, cleanups, net, client>>

\* the messages without message i, and what was received without its pushes
Without(ms, i) == SubSeq(ms, 1, i - 1) \o SubSeq(ms, i + 1, Len(ms))

Forget(rs, i) ==
  LET rest == SelectSeq(rs, LAMBDA j : j # i)
  IN [k \in 1..Len(rest) |-> IF rest[k] > i THEN rest[k] - 1 ELSE rest[k]]

\* ------------------------------------------------------- broadcastMessage
\* lines 396-401 and 423-428: the branch on the kind of message and the
\* first table lookup
BroadcastStart(i) ==
  /\ ~crashed
  /\ msgs[i].pc = "start"
  /\ LET b == msgs[i]
         ms == IF b.direct /\ b.recipient # NoUser
                 THEN [msgs EXCEPT ![i].pc = "r_iter",
                         ![i].ref = Clients[b.recipient],
                         ![i].init = heap[Clients[b.recipient]]]
                 ELSE IF b.space # NoSpace
                   THEN [msgs EXCEPT ![i].pc = "sp_iter",
                           ![i].ref = Spaces[b.space],
                           ![i].init = heap[Spaces[b.space]]]
                   ELSE [msgs EXCEPT ![i].pc = "done"]
     IN SetRefs(Clients, Spaces, href, ms, heap)
  /\ UNCHANGED <<hpc, owner, frame, clSeen, members, recv, crashed, cleanups, net, client>>

\* conn.WriteJSON fails on a closed connection and may fail on any other
WriteResults(c) == IF hpc[c] = "closed" THEN {FALSE} ELSE BOOLEAN

\* a round of the range loop whose failed write ends the goroutine
BroadcastPushAborts(i, c, ok) ==
  /\ ~crashed
  /\ msgs[i].pc \in {"r_iter", "s_iter", "sp_iter"}
  /\ c \in heap[msgs[i].ref] \ msgs[i].visited
  /\ ok \in WriteResults(c)
  /\ IF ok
       THEN /\ msgs' = [msgs EXCEPT ![i].visited = @ \cup {c}]
            /\ recv' = [recv EXCEPT ![c] = Append(@, i)]
            /\ UNCHANGED <<href, Clients, Spaces, heap>>
       ELSE /\ SetRefs(Clients, Spaces, href, Without(msgs, i), heap)
            /\ recv' = [d \in Conns |-> Forget(recv[d], i)]
  /\ UNCHANGED <<hpc, owner, frame, clSeen, members, crashed, cleanups, net, client>>

\* a round of the range loop that takes a connection whose write failed out
\* of the set it ranges over
BroadcastPushRemoves(i, c, ok) ==
  /\ ~crashed
  /\ msgs[i].pc \in {"r_iter", "s_iter", "sp_iter"}
  /\ msgs[i].writing = NoConn
  /\ c \in heap[msgs[i].ref] \ msgs[i].visited
  /\ ok \in WriteResults(c)
  /\ msgs' = [msgs EXCEPT ![i].visited = @ \cup {c}]
  /\ recv' = IF ok THEN [recv EXCEPT ![c] = Append(@, i)] ELSE recv
  /\ heap' = IF ok THEN heap ELSE DeleteConn(heap, msgs[i].ref, c)
  /\ UNCHANGED <<hpc, owner, frame, href, clSeen, Clients, Spaces, members,
                 crashed, cleanups, net, client>>

\* lines 403-409, 417-421, 433-439: one round of `for conn := range conns`
\* that produces connection c; the range reads the map as it is now
BroadcastPush(i, c, ok) ==
  /\ ~crashed
  /\ msgs[i].pc \in {"r_iter", "s_iter", "sp_iter"}
  /\ msgs[i].writing = NoConn
  /\ c \in heap[msgs[i].ref] \ msgs[i].visited
  /\ ok \in WriteResults(c)
  /\ msgs' = [msgs EXCEPT ![i].visited = @ \cup {c}]
  /\ recv' = IF ok THEN [recv EXCEPT ![c] = Append(@, i)] ELSE recv
  /\ UNCHANGED <<hpc, owner, frame, href, clSeen, Clients, Spaces, heap,
                 members, crashed, cleanups, net, client>>

\* lines 404, 418, 434: a round of the range loop produces c and calls
\* conn.WriteJSON, which blocks until the frame is written: gorilla's
\* Upgrade clears the deadlines of the connection and the code sets none
BroadcastWriteBegins(i, c) ==
  /\ ~crashed
  /\ msgs[i].pc \in {"r_iter", "s_iter", "sp_iter"}
  /\ msgs[i].writing = NoConn
  /\ c \in heap[msgs[i].ref] \ msgs[i].visited
  /\ msgs' = [msgs EXCEPT ![i].writing = c]
  /\ UNCHANGED <<hpc, owner, frame, href, clSeen, Clients, Spaces, heap,
                 members, recv, crashed, cleanups, net, client>>

\* the pending WriteJSON returns, with or without an error
BroadcastWriteEnds(i, ok) ==
  /\ ~crashed
  /\ msgs[i].writing # NoConn
  /\ ok \in WriteResults(msgs[i].writing)
  /\ msgs' = [msgs EXCEPT ![i].visited = @ \cup {msgs[i].writing},
                          ![i].writing = NoConn]
  /\ recv' = IF ok THEN [recv EXCEPT ![msgs[i].writing] = Append(@, i)] ELSE recv
  /\ UNCHANGED <<hpc, owner, frame, href, clSeen, Clients, Spaces, heap,
                 members, crashed, cleanups, net, client>>

\* the end of a range loop (an entry added while it ran may have been
\* produced or skipped); after the recipient's loop comes the lookup of
\* line 415 and the sender's loop.  Unless `keep` is "inflight" the model keeps
\* the message and its pushes once the goroutine has returned.
BroadcastNext(i, keep) ==
  /\ ~crashed
  /\ msgs[i].pc \in {"r_iter", "s_iter", "sp_iter"}
  /\ msgs[i].writing = NoConn
  /\ RangeOver(msgs[i])
  /\ LET last == msgs[i].pc # "r_iter"
         ms == IF ~last
                 THEN [msgs EXCEPT ![i].pc = "s_iter",
                         ![i].ref = Clients[msgs[i].sender],
                         ![i].init = heap[Clients[msgs[i].sender]],
                         ![i].visited = {}]
                 ELSE IF keep # "inflight"
                   THEN [msgs EXCEPT ![i].pc = "done", ![i].ref = Nil,
                           ![i].init = {}, ![i].visited = {}]
                   ELSE Without(msgs, i)
     IN /\ SetRefs(Clients, Spaces, href, ms, heap)
        /\ recv' = IF last /\ keep = "inflight" THEN [c \in Conns |-> Forget(recv[c], i)]
                     ELSE recv
  /\ UNCHANGED <<hpc, owner, frame, clSeen, members, crashed, cleanups, net, client>>

\* ------------------------------------------------------------ environment
\* CreateSpace, JoinSpace and InviteToSpace insert a row of space_members;
\* nothing in the server deletes one
AddMember(u, s) ==
  /\ ~crashed
  /\ <<s, u>> \notin members
  /\ members' = members \cup {<<s, u>>}
  /\ UNCHANGED <<hpc, owner, frame, href, clSeen, Clients, Spaces, heap,
                 msgs, recv, crashed, cleanups, net, client>>

\* the Go runtime finds a map being written while another goroutine reads
\* or writes it, or a broadcast goroutine panics in WriteJSON because the
\* connection is being written by another goroutine: the process exits and
\* its memory is gone
FatalError ==
  /\ ~crashed
  /\ \E t1, t2 \in Tasks :
        \/ MapRace(t1, t2)
        \/ t1[1] = "broadcast" /\ ConnRace(t1, t2)
  /\ crashed' = TRUE
  /\ hpc' = [c \in Conns |-> "connecting"]
  /\ owner' = [c \in Conns |-> NoUser]
  /\ frame' = [c \in Conns |-> NoSpace]
  /\ href' = [c \in Conns |-> Nil]
  /\ clSeen' = [c \in Conns |-> {}]
  /\ Clients' = [u \in Users |-> Nil]
  /\ Spaces' = [s \in SpaceIDs |-> Nil]
  /\ heap' = [m \in 0..NumMaps |-> {}]
  /\ msgs' = <<>>
  /\ recv' = [c \in Conns |-> <<>>]
  /\ cleanups' = [c \in Conns |-> NoCleanups]
  /\ UNCHANGED <<members, net, client>>

\* the steps of the handlers of connections 1..nc
HandlerNext(nc) ==
  \/ \E c \in 1..nc, u \in Users : Connect(c, u)
  \/ \E c \in 1..nc, u \in Users : UpgradeFails(c, u)
  \/ \E c \in 1..nc : RegMake(c)
  \/ \E c \in 1..nc : RegAdd(c)
  \/ \E c \in 1..nc : Welcome(c)
  \/ \E c \in 1..nc, cause \in ReadErrors : ReadError(c, cause)
  \/ \E c \in 1..nc : IgnoredFrame(c)
  \/ \E c \in 1..nc, s \in FrameSpaces, sub \in BOOLEAN, res \in {"stranger", "error"} :
        DroppedFrame(c, s, sub, res)
  \/ \E c \in 1..nc, s \in FrameSpaces : SubscribeFrame(c, s)
  \/ \E c \in 1..nc, s \in FrameSpaces : UnsubscribeFrame(c, s)
  \/ \E c \in 1..nc : SubMake(c)
  \/ \E c \in 1..nc : SubAdd(c)
  \/ \E c \in 1..nc : Confirm(c)
  \/ \E c \in 1..nc : UnsubDel(c)
  \/ \E c \in 1..nc : UnsubPrune(c)
  \/ \E c \in 1..nc : CleanupDelete(c)
  \/ \E c \in 1..nc : CleanupPrune(c)
  \/ \E c \in 1..nc, k \in SpaceIDs : CleanupRange(c, k)
  \/ \E c \in 1..nc : CleanupClose(c)
  \/ FatalError

\* the steps of SendMessage and of the broadcasts of at most nm messages
\* at a time
DeliveryNext(nc, nm, keep) ==
  \/ /\ Len(msgs) < nm
     /\ \E u \in Users, sp \in FrameSpaces \cup {NoSpace}, rc \in Users \cup {NoUser},
           res \in {"member", "stranger", "error"}, insertOk \in BOOLEAN,
           userOk \in BOOLEAN :
             SendMessage(u, sp, rc, res, insertOk, userOk, keep)
  \/ \E i \in DOMAIN msgs : BroadcastStart(i)
  \/ \E i \in DOMAIN msgs, c \in Conns, ok \in BOOLEAN : BroadcastPush(i, c, ok)
  \/ \E i \in DOMAIN msgs : BroadcastNext(i, keep)
  \/ \E c \in 1..nc : HandlerWritePanic(c)

\* the connection handlers and the changing memberships, no message
Next ==
  \/ HandlerNext(NumConns)
  \/ \E u \in Users, s \in FrameSpaces : AddMember(u, s)

Spec == Init /\ [][Next]_vars

\* every user is a member of every space
InitDeliver ==
  /\ hpc = [c \in Conns |-> "connecting"]
  /\ owner = [c \in Conns |-> NoUser]
  /\ frame = [c \in Conns |-> NoSpace]
  /\ href = [c \in Conns |-> Nil]
  /\ clSeen = [c \in Conns |-> {}]
  /\ Clients = [u \in Users |-> Nil]
  /\ Spaces = [s \in SpaceIDs |-> Nil]
  /\ heap = [m \in 0..NumMaps |-> {}]
  /\ members = SpaceIDs \X Users
  /\ msgs = <<>>
  /\ recv = [c \in Conns |-> <<>>]
  /\ crashed = FALSE
  /\ cleanups = [c \in Conns |-> NoCleanups]
  /\ net = NoCalls
  /\ client = NoClient

\* the connection handlers and the broadcast of one message at a time; a
\* message is dropped from the model when its goroutine returns
NextDeliver ==
  \/ HandlerNext(NumConns)
  \/ DeliveryNext(NumConns, MaxMsgs, "inflight")

SpecDeliver == InitDeliver /\ [][NextDeliver]_vars

\* one connection and two messages, kept to compare the order of the pushes
\* with the order of the inserts
NextOrder ==
  \/ HandlerNext(OrderConns)
  \/ DeliveryNext(OrderConns, OrderMsgs, "persisted")

SpecOrder == InitDeliver /\ [][NextOrder]_vars

\* ------------------------------------------------- one call after another
\* The handler inlines the operations on the tables.  Run one after the
\* other, without interleaving, they are:

\* lines 284-287 and 364-367: add c under key k; m is the map `make` returns
AddUnder(tbl, hp, k, c, m) ==
  LET t1 == IF Exists(tbl, k) THEN tbl ELSE MakeEntry(tbl, k, m)
      h1 == IF Exists(tbl, k) THEN hp ELSE [hp EXCEPT ![m] = {}]
  IN [tbl |-> t1, hp |-> AddConn(t1, h1, k, c)]

\* lines 306-309, 314-317 and 381-385: delete c under key k, prune the key
RemoveUnder(tbl, hp, k, c) ==
  LET h1 == DeleteConn(hp, tbl[k], c)
  IN [tbl |-> IF Exists(tbl, k) THEN PruneKey(tbl, h1, tbl[k], k) ELSE tbl, hp |-> h1]

\* lines 312-320: `for spaceID, conns := range s.Spaces` produces the keys in
\* the order ks; `if _, ok := conns[conn]; ok` guards the removal
RECURSIVE RemoveFromAll(_, _, _, _)
RemoveFromAll(tbl, hp, ks, c) ==
  IF ks = <<>> THEN [tbl |-> tbl, hp |-> hp]
  ELSE LET k == Head(ks)
           r == IF Exists(tbl, k) /\ c \in ConnectionsFor(tbl, hp, k)
                  THEN RemoveUnder(tbl, hp, k, c)
                  ELSE [tbl |-> tbl, hp |-> hp]
       IN RemoveFromAll(r.tbl, r.hp, Tail(ks), c)

\* the orders in which a range loop can produce the keys of s.Spaces
RangeOrders ==
  {q \in [DOMAIN SpaceSeq -> SpaceIDs] : \A a, b \in DOMAIN q : a # b => q[a] # q[b]}

\* Register(userID, connection), lines 284-287; a connection has one user
Register(c, u) ==
  /\ owner[c] \in {NoUser, u}
  /\ LET r == AddUnder(Clients, heap, u, c, NewMap(Clients, Spaces, href, msgs))
     IN SetRefs(r.tbl, Spaces, href, msgs, r.hp)
  /\ owner' = [owner EXCEPT ![c] = u]
  /\ net' = [net EXCEPT !.registered = @ \cup {c}]
  /\ UNCHANGED <<hpc, frame, clSeen, members, recv, crashed, cleanups, client>>

\* Unregister(userID, connection), lines 306-309
Unregister(c) ==
  /\ owner[c] # NoUser
  /\ LET r == RemoveUnder(Clients, heap, owner[c], c)
     IN SetRefs(r.tbl, Spaces, href, msgs, r.hp)
  /\ net' = [net EXCEPT !.registered = @ \ {c}]
  /\ UNCHANGED <<hpc, owner, frame, clSeen, members, recv, crashed, cleanups, client>>

\* Subscribe(spaceID, connection), lines 364-367
Subscribe(c, s) ==
  /\ LET r == AddUnder(Spaces, heap, s, c, NewMap(Clients, Spaces, href, msgs))
     IN SetRefs(Clients, r.tbl, href, msgs, r.hp)
  /\ net' = [net EXCEPT !.subscribed = @ \cup {<<s, c>>}]
  /\ UNCHANGED <<hpc, owner, frame, clSeen, members, recv, crashed, cleanups, client>>

\* Unsubscribe(spaceID, connection), lines 381-385
Unsubscribe(c, s) ==
  /\ LET r == RemoveUnder(Spaces, heap, s, c)
     IN SetRefs(Clients, r.tbl, href, msgs, r.hp)
  /\ net' = [net EXCEPT !.subscribed = @ \ {<<s, c>>}]
  /\ UNCHANGED <<hpc, owner, frame, clSeen, members, recv, crashed, cleanups, client>>

\* UnsubscribeAll(connection), lines 312-320
UnsubscribeAll(c, ks) ==
  /\ LET r == RemoveFromAll(Spaces, heap, ks, c)
     IN SetRefs(Clients, r.tbl, href, msgs, r.hp)
  /\ net' = [net EXCEPT !.subscribed = {p \in @ : p[2] # c}]
  /\ UNCHANGED <<hpc, owner, frame, clSeen, members, recv, crashed, cleanups, client>>

NextCalls ==
  \/ \E c \in Conns, u \in Users : Register(c, u)
  \/ \E c \in Conns : Unregister(c)
  \/ \E c \in Conns, s \in SpaceIDs : Subscribe(c, s)
  \/ \E c \in Conns, s \in SpaceIDs : Unsubscribe(c, s)
  \/ \E c \in Conns, ks \in RangeOrders : UnsubscribeAll(c, ks)

SpecCalls == Init /\ [][NextCalls]_vars

\* ------------------------------------------------------------------ claims
\* two goroutines about to touch s.Clients or s.Spaces itself, one writing
TableRace(t1, t2) ==
  /\ t1 # t2
  /\ \E a1 \in Access(t1), a2 \in Access(t2) :
        a1[1] \in {ClientsObj, SpacesObj} /\ Conflict(a1, a2)

\* C1: in no reachable state are two tasks (connection handlers, broadcast
\* goroutines) at statements that access the Clients table, or the Spaces
\* table, at the same time with at least one of them writing it.
C1_TablesMutuallyExclusive ==
  \A t1, t2 \in Tasks \ {<<"handler", c>> : c \in {d \in Conns : hpc[d] = "connecting"}} :
    ~TableRace(t1, t2)

\* a broadcast ranges over the set of a space while the handler of c is
\* about to delete from that set (unsubscribe, or cleanup on disconnect)
UnsubscribesUnderDeliver(i, c) ==
  /\ msgs[i].pc = "sp_iter"
  /\ msgs[i].ref # Nil
  /\ \/ hpc[c] = "unsub_del" /\ href[c] = msgs[i].ref
     \/ /\ hpc[c] = "cl_range"
        /\ \E k \in Keys(Spaces) \ clSeen[c] :
              Spaces[k] = msgs[i].ref /\ c \in heap[Spaces[k]]

\* C2: a connection that unsubscribes from a space, or disconnects while
\* subscribed to it, during a delivery to that space never makes the process
\* crash: no step from such a state is the fatal error of the runtime.
C2_UnsubscribeUnderDeliverNeverCrashes ==
  [][(\E i \in DOMAIN msgs, c \in Conns : UnsubscribesUnderDeliver(i, c)) => ~crashed']_vars

\* the messages a and b belong to one space or to one direct conversation
SameConversation(a, b) ==
  IF a.direct /\ b.direct THEN {a.sender, a.recipient} = {b.sender, b.recipient}
  ELSE ~a.direct /\ ~b.direct /\ a.space = b.space

\* C3: every connection receives the pushed messages of one space, and of
\* one direct conversation, in the order in which they were persisted.
\* (Stated for the messages whose sender is not their recipient.)
C3_PushedInPersistOrder ==
  \A c \in Conns : \A p, q \in DOMAIN recv[c] :
    LET a == msgs[recv[c][p]]
        b == msgs[recv[c][q]]
    IN (p < q /\ SameConversation(a, b) /\ a.sender # a.recipient)
         => recv[c][p] <= recv[c][q]

\* how many copies of message i connection c has received
Copies(c, i) == Cardinality({p \in DOMAIN recv[c] : recv[c][p] = i})

\* C4: a connection receives at most one copy of a direct message, also when
\* it belongs both to the sender's and to the recipient's set.
C4_OneCopyOfDirectMessage ==
  \A c \in Conns, i \in DOMAIN msgs : msgs[i].direct => Copies(c, i) <= 1

\* C5: the broadcast of a space message pushes only to the connections that
\* were subscribed to the space when the delivery looked the space up.
C5_PushesToSubscribersAtCallTime ==
  \A i \in DOMAIN msgs : msgs[i].pc = "sp_iter" => msgs[i].visited \subseteq msgs[i].init

\* the handler of c has returned: after the deferred cleanup, or with a
\* panic that gin recovers before the cleanup was deferred
Returned(c) == hpc[c] \in {"closed", "panicked"}

\* C6: once the handler of a connection has returned, Unregister and
\* UnsubscribeAll have each run exactly once for that connection.
C6_CleanupExactlyOnce ==
  \A c \in Conns : Returned(c) => cleanups[c] = [unregister |-> 1, unsubscribeAll |-> 1]

\* c is in no set of either table
InNoTable(c) ==
  /\ \A u \in Users : c \notin ConnectionsFor(Clients, heap, u)
  /\ \A s \in SpaceIDs : c \notin ConnectionsFor(Spaces, heap, s)

\* a table lookup of the broadcast of message i (lines 401, 415, 428)
Lookup(i) ==
  /\ i \in DOMAIN msgs /\ i \in DOMAIN msgs'
  /\ \/ msgs[i].pc = "start" /\ msgs'[i].pc \in {"r_iter", "sp_iter"}
     \/ msgs[i].pc = "r_iter" /\ msgs'[i].pc = "s_iter"

\* C7: a connection whose handler reached Closed is in no set of Clients and
\* in no set of Spaces, it stays closed, and every lookup a broadcast makes
\* from then on yields a set without it.
C7_ClosedStaysOut ==
  /\ [](\A c \in Conns : hpc[c] = "closed" => InNoTable(c))
  /\ [][\A c \in Conns : hpc[c] = "closed" => (hpc'[c] = "closed" \/ crashed')]_vars
  /\ [][\A c \in Conns, i \in DOMAIN msgs :
          (hpc[c] = "closed" /\ Lookup(i)) => c \notin heap'[msgs'[i].ref]]_vars

\* connection 1 is closed while connection 2 of the same user, subscribed to
\* the space, is being pushed a message of the space
C7_Witness ==
  /\ hpc[1] = "closed" /\ owner[1] = owner[2]
  /\ 2 \in ConnectionsFor(Clients, heap, owner[2])
  /\ \E i \in DOMAIN msgs :
        /\ msgs[i].pc = "sp_iter"
        /\ msgs[i].ref = Spaces[msgs[i].space]
        /\ msgs[i].visited = {2}

\* the state of a table, whatever the identities of its inner maps
View(tbl, hp) ==
  [k \in DOMAIN tbl |-> [exists |-> Exists(tbl, k), conns |-> ConnectionsFor(tbl, hp, k)]]

\* C8: after every sequence of Register and Unregister calls the set of each
\* user is the net set of the sequence, and a user whose net set is empty has
\* no entry in Clients.
C8_RegistryIsNetSet ==
  \A u \in Users :
    LET netSet == {c \in net.registered : owner[c] = u}
    IN /\ ConnectionsFor(Clients, heap, u) = netSet
       /\ netSet = {} => ~Exists(Clients, u)

\* both connections are alice's; connection 2 was registered and unregistered
C8_Witness ==
  /\ owner[1] = "alice" /\ owner[2] = "alice"
  /\ net.registered = {1}
  /\ ConnectionsFor(Clients, heap, "alice") = {1}

\* Unsubscribe(s, c) for the spaces of ks that c has joined, one after the other
RECURSIVE UnsubscribeEach(_, _, _, _)
UnsubscribeEach(tbl, hp, ks, c) ==
  IF ks = <<>> THEN [tbl |-> tbl, hp |-> hp]
  ELSE LET r == IF <<Head(ks), c>> \in net.subscribed
                  THEN RemoveUnder(tbl, hp, Head(ks), c)
                  ELSE [tbl |-> tbl, hp |-> hp]
       IN UnsubscribeEach(r.tbl, r.hp, Tail(ks), c)

\* C9: after every sequence of Subscribe, Unsubscribe and UnsubscribeAll calls
\* the set of each space is the net set of the sequence, and UnsubscribeAll(c)
\* leaves Spaces as Unsubscribe(s, c) for every space s that c has joined does.
C9_SubscriptionsAreNetSet ==
  /\ \A s \in SpaceIDs :
        ConnectionsFor(Spaces, heap, s) = {c \in Conns : <<s, c>> \in net.subscribed}
  /\ \A c \in Conns, ks \in RangeOrders, js \in RangeOrders :
        LET all == RemoveFromAll(Spaces, heap, ks, c)
            each == UnsubscribeEach(Spaces, heap, js, c)
        IN View(all.tbl, all.hp) = View(each.tbl, each.hp)

\* connection 1 has joined both spaces, connection 2 one of them
C9_Witness ==
  /\ net.subscribed = {<<"general", 1>>, <<"random", 1>>, <<"general", 2>>}
  /\ ConnectionsFor(Spaces, heap, "general") = {1, 2}

\* C10: the handler of a connection c that is in the set of space s never
\* drops a frame {space_id: s, subscribe: false}: whatever the membership
\* query answers, the frame takes c out of the set.
C10_UnsubscribeFrameNeverDropped ==
  \A c \in Conns, s \in FrameSpaces, res \in {"stranger", "error"} :
    c \in ConnectionsFor(Spaces, heap, s) => ~ENABLED DroppedFrame(c, s, FALSE, res)

\* C11: every connection in the set of a space belongs to a member of the
\* space, and a connection enters the set only by line 367 of its own
\* handler, serving a subscribe frame for that space whose membership query
\* found the row.
C11_SubscribedAfterMembershipCheck ==
  /\ [](\A s \in SpaceIDs : \A c \in ConnectionsFor(Spaces, heap, s) :
          <<s, owner[c]>> \in members)
  /\ [][\A s \in SpaceIDs, c \in Conns :
          (c \notin ConnectionsFor(Spaces, heap, s) /\ c \in heap'[Spaces'[s]])
            => (hpc[c] = "sub_add" /\ frame[c] = s /\ <<s, owner[c]>> \in members)]_vars

\* connection 1 is subscribed while connection 2, open, belongs to a user
\* who is not a member of the space
C11_Witness ==
  /\ 1 \in ConnectionsFor(Spaces, heap, "general")
  /\ hpc[2] = "read"
  /\ <<"general", owner[2]>> \notin members

\* C12: when the handler of an open connection reads a subscribe frame for a
\* space its user is not a member of, the frame is dropped: the subscribe
\* branch is not taken, and the step changes neither table, sends nothing
\* and leaves the handler waiting for the next frame.
C12_NonMemberSubscribeDropped ==
  \A c \in Conns, s \in FrameSpaces :
    (~crashed /\ hpc[c] = "read" /\ <<s, owner[c]>> \notin members)
      => /\ ENABLED DroppedFrame(c, s, TRUE, "stranger")
         /\ ~ENABLED SubscribeFrame(c, s)
         /\ ~ENABLED (DroppedFrame(c, s, TRUE, "stranger") /\ vars' # vars)

\* connection 1, registered and open, belongs to a user who is not a member
\* of a space that has a subscriber
C12_Witness ==
  /\ hpc[1] = "read"
  /\ 1 \in ConnectionsFor(Clients, heap, owner[1])
  /\ <<"general", owner[1]>> \notin members
  /\ ConnectionsFor(Spaces, heap, "general") = {2}

\* the range loops a broadcast can be in
Loops == {"r_iter", "s_iter", "sp_iter"}

\* C13: a failed push is not retried and does not end the delivery: within
\* one range loop every round attempts one connection that was not attempted
\* before and writes to no other, and a loop ends only when every connection
\* of its target set that is still in the set has been attempted.
C13_FailedPushIsolated ==
  [][~crashed' =>
       /\ Len(msgs') < Len(msgs) =>
            \E i \in DOMAIN msgs : msgs[i].pc \in Loops /\ RangeOver(msgs[i])
       /\ Len(msgs') = Len(msgs) =>
            \A i \in DOMAIN msgs :
              /\ (msgs[i].pc \in Loops /\ msgs'[i].pc # msgs[i].pc) => RangeOver(msgs[i])
              /\ (msgs'[i].pc = msgs[i].pc /\ msgs'[i].visited # msgs[i].visited) =>
                   \E c \in heap[msgs[i].ref] \ msgs[i].visited :
                     /\ msgs'[i].visited = msgs[i].visited \cup {c}
                     /\ \A d \in Conns \ {c} : recv'[d] = recv[d]]_vars

\* the push to connection 1 failed and the same loop pushed to connection 2
C13_Witness ==
  \E i \in DOMAIN msgs :
    /\ msgs[i].pc \in Loops
    /\ msgs[i].visited = {1, 2}
    /\ recv[1] = <<>> /\ recv[2] = <<i>>
    /\ hpc[1] # "closed"

\* the step is a round of a range loop of message i whose write to c fails
\* (lines 404-405, 418-419, 434-435)
FailedPush(i, c) ==
  /\ i \in DOMAIN msgs /\ i \in DOMAIN msgs'
  /\ msgs[i].pc \in Loops /\ msgs'[i].pc = msgs[i].pc
  /\ c \notin msgs[i].visited
  /\ msgs'[i].visited = msgs[i].visited \cup {c}
  /\ recv' = recv

\* the deferred cleanup of lines 303-323 has started
Cleaning(c) == hpc[c] \in {"cl_del", "cl_prune", "cl_range", "closed"}

\* C14: a push that fails starts the cleanup of its connection: right after
\* the failed write the connection is closed or being taken out of the tables.
C14_FailedPushStartsCleanup ==
  [][\A i \in DOMAIN msgs, c \in Conns : FailedPush(i, c) => Cleaning(c)']_vars

\* the handlers without subscription frames: connect, register, disconnect
RegistryNext(nc) ==
  \/ \E c \in 1..nc, u \in Users : Connect(c, u)
  \/ \E c \in 1..nc : RegMake(c)
  \/ \E c \in 1..nc : RegAdd(c)
  \/ \E c \in 1..nc : Welcome(c)
  \/ \E c \in 1..nc, cause \in ReadErrors : ReadError(c, cause)
  \/ \E c \in 1..nc : CleanupDelete(c)
  \/ \E c \in 1..nc : CleanupPrune(c)
  \/ \E c \in 1..nc : CleanupClose(c)
  \/ FatalError

\* direct messages whose writes take time: a write that has begun may end
\* or stay pending
NextStall ==
  \/ RegistryNext(NumConns)
  \/ /\ Len(msgs) < MaxMsgs
     /\ \E u \in Users, rc \in Users, insertOk \in BOOLEAN, userOk \in BOOLEAN :
           SendMessage(u, NoSpace, rc, "member", insertOk, userOk, "inflight")
  \/ \E i \in DOMAIN msgs : BroadcastStart(i)
  \/ \E i \in DOMAIN msgs, c \in Conns : BroadcastWriteBegins(i, c)
  \/ \E i \in DOMAIN msgs, ok \in BOOLEAN : BroadcastWriteEnds(i, ok)
  \/ \E i \in DOMAIN msgs : BroadcastNext(i, "inflight")

SpecStall == InitDeliver /\ [][NextStall]_vars

\* C15: a write that is pending on one connection does not hold up the
\* others: while the write to a connection has not returned, the push to
\* every other connection of the target set that has not been attempted yet
\* can be made.
C15_PendingWriteBlocksNobody ==
  \A i \in DOMAIN msgs : msgs[i].writing # NoConn =>
    \A d \in (heap[msgs[i].ref] \ msgs[i].visited) \ {msgs[i].writing} :
      ENABLED BroadcastWriteBegins(i, d)

\* C16: every persisted message was answered with success (201 Created):
\* nothing that follows the insert changes the response.
C16_PersistedMeansSuccess ==
  \A i \in DOMAIN msgs : msgs[i].inserted => msgs[i].answer = "created"

\* one connection and the requests of SendMessage, every one of them kept
NextSend ==
  \/ HandlerNext(OrderConns)
  \/ DeliveryNext(OrderConns, MaxMsgs, "all")

SpecSend == InitDeliver /\ [][NextSend]_vars

\* C17: a message whose insert failed (or was never attempted) has no
\* broadcast goroutine and is pushed to no connection.
C17_UnpersistedNeverDelivered ==
  \A i \in DOMAIN msgs : ~msgs[i].inserted =>
    /\ msgs[i].pc = "unsent"
    /\ \A c \in Conns : Copies(c, i) = 0

\* the insert of a direct message failed while its recipient had an open,
\* registered connection
C17_Witness ==
  \E i \in DOMAIN msgs :
    /\ msgs[i].answer = "insert_error" /\ msgs[i].direct
    /\ hpc[1] = "read"
    /\ ConnectionsFor(Clients, heap, msgs[i].recipient) = {1}

\* C18: a malformed frame leaves the handler of an open connection waiting
\* for the next frame: the step that reads it does not leave the read loop.
C18_MalformedFrameIgnored ==
  \A c \in Conns :
    hpc[c] = "read" => ~ENABLED (ReadError(c, "malformed") /\ hpc'[c] # "read")

\* C19: the handler of an open connection serves a well-formed frame that
\* is not a subscription frame whatever the memberships are, and the step
\* changes nothing: neither table, no frame sent, the handler still waiting
\* for the next frame.
C19_OtherFramesIgnored ==
  \A c \in Conns :
    (~crashed /\ hpc[c] = "read")
      => /\ ENABLED IgnoredFrame(c)
         /\ ~ENABLED (IgnoredFrame(c) /\ vars' # vars)

\* both connections are open, connection 1 registered and subscribed
C19_Witness ==
  /\ hpc[1] = "read" /\ hpc[2] = "read"
  /\ 1 \in ConnectionsFor(Clients, heap, owner[1])
  /\ 1 \in ConnectionsFor(Spaces, heap, "general")

\* Connecting, Open (from the upgrade until the cleanup has closed the
\* connection) and Closed
Phase(c) == CASE hpc[c] = "connecting" -> 0 [] hpc[c] = "closed" -> 2 [] OTHER -> 1

\* C20: while the process lives a connection never goes back to an earlier
\* state; a connection that is Connecting (its upgrade has not succeeded) or
\* Closed is in no set of either table; and a connection enters a set of
\* Clients or of Spaces only by a step of its own handler while it is Open.
C20_ConnectionLifecycle ==
  /\ [](\A c \in Conns : Phase(c) # 1 => InNoTable(c))
  /\ [][\A c \in Conns : Phase(c)' >= Phase(c) \/ crashed']_vars
  /\ [][\A c \in Conns :
          /\ \A u \in Users :
               (c \notin ConnectionsFor(Clients, heap, u) /\ c \in heap'[Clients'[u]])
                 => (hpc[c] = "reg_add" /\ owner[c] = u)
          /\ \A s \in SpaceIDs :
               (c \notin ConnectionsFor(Spaces, heap, s) /\ c \in heap'[Spaces'[s]])
                 => (hpc[c] = "sub_add" /\ frame[c] = s)]_vars

\* connection 1 is closed after its cleanup; connection 2, of bob, is open,
\* registered and subscribed
C20_Witness ==
  /\ hpc[1] = "closed" /\ cleanups[1].unsubscribeAll = 1
  /\ hpc[2] = "read" /\ owner[2] = "bob"
  /\ 2 \in ConnectionsFor(Clients, heap, "bob")
  /\ 2 \in ConnectionsFor(Spaces, heap, "general")

C22_OneUserPerConnection ==
  \A c \in Conns, u \in Users :
    c \in ConnectionsFor(Clients, heap, u) => u = owner[c]

\* alice and bob each have a registered connection
C22_Witness ==
  /\ ConnectionsFor(Clients, heap, "alice") = {1}
  /\ ConnectionsFor(Clients, heap, "bob") = {2}

\* the step is one of a broadcast goroutine: a lookup, a round of a range
\* loop, the end of a loop or the return of the goroutine
Delivers ==
  /\ ~crashed'
  /\ IF Len(msgs') = Len(msgs)
       THEN \E i \in DOMAIN msgs :
              msgs'[i].pc # msgs[i].pc \/ msgs'[i].visited # msgs[i].visited
       ELSE Len(msgs') < Len(msgs)

\* C23: no step of broadcastMessage changes the Clients or the Spaces table,
\* whatever its pushes return: every key keeps its set, and a connection
\* whose push failed is still in the set the loop ranges over.
C23_DeliverLeavesTables ==
  [][Delivers =>
       /\ View(Clients, heap)' = View(Clients, heap)
       /\ View(Spaces, heap)' = View(Spaces, heap)
       /\ \A i \in DOMAIN msgs, c \in Conns :
            FailedPush(i, c) => c \in heap'[msgs'[i].ref]]_vars

\* the push of a space message to connection 1, open and subscribed, has
\* failed and connection 1 is still in the set of the space
C23_Witness ==
  \E i \in DOMAIN msgs :
    /\ msgs[i].pc = "sp_iter"
    /\ 1 \in msgs[i].visited /\ recv[1] = <<>>
    /\ hpc[1] = "read"
    /\ 1 \in ConnectionsFor(Spaces, heap, msgs[i].space)

\* message b was handed to broadcastMessage (line 134)
Handed(b) == b.pc # "unsent"

\* C24: every message handed to broadcastMessage has a space or a recipient,
\* never both and never neither; its direct-message flag is set exactly when
\* it has a recipient; and the goroutine takes exactly one of the two
\* branches, the one of its target.
C24_ExactlyOneTarget ==
  /\ [](\A i \in DOMAIN msgs : Handed(msgs[i]) =>
          /\ (msgs[i].space # NoSpace) # (msgs[i].recipient # NoUser)
          /\ msgs[i].direct = (msgs[i].recipient # NoUser)
          /\ msgs[i].pc \in {"r_iter", "s_iter"} => msgs[i].direct
          /\ msgs[i].pc = "sp_iter" => ~msgs[i].direct)
  /\ [][~crashed' => \A i \in DOMAIN msgs \cap DOMAIN msgs' :
          msgs[i].pc = "start" => msgs'[i].pc \in {"start", "r_iter", "sp_iter"}]_vars

\* a direct message is in the loop over its recipient's connections and has
\* been pushed to connection 1
C24_Witness ==
  \E i \in DOMAIN msgs :
    /\ msgs[i].pc = "r_iter" /\ msgs[i].answer = "created"
    /\ msgs[i].space = NoSpace
    /\ recv[1] = <<i>>

\* C25: at most one task writes to a connection at a time: in no reachable
\* state are two tasks (the handler of the connection with its welcome or
\* confirmation frame, the broadcast goroutines with their pushes) at a
\* WriteJSON on the same connection.
C25_OneWriterPerConnection ==
  \A t1, t2 \in Tasks : ~ConnRace(t1, t2)

\* the step is one of the handler of connection c, serving a frame (lines
\* 333-389) or running the cleanup on disconnect (lines 303-323)
Moved(c) ==
  /\ hpc[c] \in {"read", "sub_make", "sub_add", "confirm", "unsub_del", "unsub_prune",
                 "cl_del", "cl_prune", "cl_range"}
  /\ hpc'[c] # hpc[c] \/ clSeen'[c] # clSeen[c]

\* the handler of c is serving a subscription frame for space s
Serving(c, s) ==
  hpc[c] \in {"sub_make", "sub_add", "confirm", "unsub_del", "unsub_prune"} /\ frame[c] = s

\* C26: a step of the handler of connection c that serves a control frame or
\* runs the cleanup on disconnect changes only c's own entries: every other
\* connection is in the same sets of Clients and of Spaces before and after;
\* and a step that serves a subscription frame for space s changes no set of
\* another space and no set of Clients.
C26_OnlyOwnEntries ==
  [][~crashed' =>
       \A c \in Conns : Moved(c) =>
         /\ \A d \in Conns \ {c} :
              /\ \A u \in Users :
                   (d \in ConnectionsFor(Clients, heap, u)) = (d \in heap'[Clients'[u]])
              /\ \A s \in SpaceIDs :
                   (d \in ConnectionsFor(Spaces, heap, s)) = (d \in heap'[Spaces'[s]])
         /\ \A s \in SpaceIDs : Serving(c, s) =>
              /\ View(Clients, heap)' = View(Clients, heap)
              /\ \A t \in SpaceIDs \ {s} :
                   View(Spaces, heap)'[t] = View(Spaces, heap)[t]]_vars

\* one connection, the requests of SendMessage, every one of them kept, and
\* memberships that change: at first nobody is a member of any space
NextMembers ==
  \/ HandlerNext(OrderConns)
  \/ DeliveryNext(OrderConns, MaxMsgs, "all")
  \/ \E u \in Users, s \in FrameSpaces : AddMember(u, s)

SpecMembers == Init /\ [][NextMembers]_vars

\* the step is a SendMessage request; its record is the last of msgs'
Requested == ~crashed' /\ Len(msgs') = Len(msgs) + 1

\* C27: a request for a space whose sender is not a member of it, and a
\* request whose membership query fails, is rejected: nothing is persisted
\* and no broadcast is started; a space message that is persisted or handed
\* to a broadcast was sent by a member of the space.
C27_NonMemberRejected ==
  [][Requested =>
       LET m == msgs'[Len(msgs')]
       IN /\ (m.space # NoSpace /\ <<m.space, m.sender>> \notin members)
               => (m.answer \in {"bad_request", "forbidden", "membership_error"})
          /\ m.answer \in {"forbidden", "membership_error"}
               => (~m.inserted /\ ~Handed(m))
          /\ (m.space # NoSpace /\ (m.inserted \/ Handed(m)))
               => <<m.space, m.sender>> \in members]_vars

\* bob, who is not a member of the space, was answered 403 while alice's
\* connection was subscribed to it
C27_Witness ==
  /\ <<"general", "bob">> \notin members
  /\ 1 \in ConnectionsFor(Spaces, heap, "general")
  /\ \E i \in DOMAIN msgs :
        /\ msgs[i].sender = "bob" /\ msgs[i].space = "general"
        /\ msgs[i].answer = "forbidden"

\* C28: when the membership query for a subscription frame of an open
\* connection fails, the frame is dropped, whether it subscribes or
\* unsubscribes and whether or not the user is a member: the step changes
\* neither table, sends nothing and leaves the handler waiting for the next
\* frame.
C28_QueryErrorDropsFrame ==
  \A c \in Conns, s \in FrameSpaces, sub \in BOOLEAN :
    (~crashed /\ hpc[c] = "read")
      => /\ ENABLED DroppedFrame(c, s, sub, "error")
         /\ ~ENABLED (DroppedFrame(c, s, sub, "error") /\ vars' # vars)

\* connection 1, open, belongs to a member of a space to which both
\* connections are subscribed
C28_Witness ==
  /\ hpc[1] = "read"
  /\ <<"general", owner[1]>> \in members
  /\ ConnectionsFor(Spaces, heap, "general") = {1, 2}

\* C29: an accepted subscribe frame makes the handler write exactly one
\* subscribe_confirm frame, after it has added the connection to the set of
\* the space: the handler goes from the `make` to the assignment of line 367,
\* from there, the connection added, to the WriteJSON of line 371 and from
\* there back to the read loop; and it comes to line 371 in no other way
\* (no confirmation for an unsubscribe, a rejected or an ignored frame).
C29_AcceptedSubscribeConfirmed ==
  [][~crashed' => \A c \in Conns :
       /\ hpc[c] = "sub_make" => hpc'[c] \in {"sub_make", "sub_add"}
       /\ (hpc[c] = "sub_add" /\ hpc'[c] # "sub_add")
            => (hpc'[c] = "confirm" /\ c \in heap'[Spaces'[frame[c]]])
       /\ hpc[c] = "confirm" => hpc'[c] \in {"confirm", "read"}
       /\ (hpc'[c] = "confirm" /\ hpc[c] # "confirm") => hpc[c] = "sub_add"]_vars

\* ------------------------------------------- client: messageService.ts
\* the variables of the server
server == <<hpc, owner, frame, href, clSeen, Clients, Spaces, heap, members,
            msgs, recv, crashed, cleanups, net>>

\* `socket.close()` (lines 63, 120): a socket that is connecting or open
\* starts closing and its close event comes later; otherwise nothing happens
CloseSocket(socks, id) ==
  IF id # NoSocket /\ socks[id] \in {"connecting", "open"}
    THEN [socks EXCEPT ![id] = "closing"] ELSE socks

\* the body of connectToWebSocket (lines 49-113) run on the module state cl;
\* the handlers of lines 75-112 are attached to the new socket
ConnectCall(cl) ==
  IF cl.socket # NoSocket /\ cl.sockets[cl.socket] = "open" THEN cl
  ELSE IF cl.isConnecting THEN cl
  ELSE [cl EXCEPT !.isConnecting = TRUE,
                  !.sockets = Append(CloseSocket(cl.sockets, cl.socket), "connecting"),
                  !.socket = Len(cl.sockets) + 1]

\* the application calls messageService.connectToWebSocket(token)
ConnectToWebSocket ==
  /\ Len(client.sockets) < MaxSockets
  /\ client' = [ConnectCall(client) EXCEPT !.disconnected = FALSE]
  /\ UNCHANGED server

\* lines 75-78: socket.onopen
OnOpen(id) ==
  /\ id \in DOMAIN client.sockets
  /\ client.sockets[id] = "connecting"
  /\ client' = [client EXCEPT !.sockets[id] = "open", !.isConnecting = FALSE]
  /\ UNCHANGED server

\* lines 99-112: the close event of a socket (after socket.close(), a failed
\* connection or a close by the server; onerror, lines 94-97, may come
\* first); `if (reconnectTimer === null)` schedules the reconnection
OnClose(id) ==
  /\ id \in DOMAIN client.sockets
  /\ client.sockets[id] # "closed"
  /\ client' = [client EXCEPT !.sockets[id] = "closed",
                              !.isConnecting = FALSE,
                              !.reconnectTimer = TRUE,
                              !.timers = IF client.reconnectTimer THEN @ ELSE @ + 1]
  /\ UNCHANGED server

\* lines 106-110: the callback of window.setTimeout, 3 s later
TimerFires ==
  /\ client.timers > 0
  /\ Len(client.sockets) < MaxSockets
  /\ client' = ConnectCall([client EXCEPT !.reconnectTimer = FALSE, !.timers = @ - 1])
  /\ UNCHANGED server

\* lines 116-131: disconnectWebSocket
DisconnectWebSocket ==
  /\ client' = [client EXCEPT !.sockets = CloseSocket(@, client.socket),
                              !.socket = NoSocket,
                              !.timers = IF client.reconnectTimer THEN @ - 1 ELSE @,
                              !.reconnectTimer = FALSE,
                              !.isConnecting = FALSE,
                              !.disconnected = TRUE]
  /\ UNCHANGED server

NextClient ==
  \/ ConnectToWebSocket
  \/ \E id \in 1..MaxSockets : OnOpen(id)
  \/ \E id \in 1..MaxSockets : OnClose(id)
  \/ TimerFires
  \/ DisconnectWebSocket

SpecClient == Init /\ [][NextClient]_vars

\* C30: after disconnectWebSocket() no reconnect timer is pending and no new
\* WebSocket is created until the application calls connectToWebSocket
\* again (the close event of the socket it closed schedules nothing); and at
\* most one reconnect timer is pending at any time.
C30_NoReconnectAfterDisconnect ==
  /\ [](client.disconnected => client.timers = 0)
  /\ [](client.timers <= 1)
  /\ [][(client.disconnected /\ client'.disconnected)
          => Len(client'.sockets) = Len(client.sockets)]_vars

====
